---- MODULE Spec2Model ----
(***************************************************************************)
(* A model of viva-engineering/redis-utils: RedisPool (a generic-pool of   *)
(* redis clients with the exec wrapper, healthcheck and close) and         *)
(* RedisCache (the cache-aside proxy built on RedisPool).                  *)
(*                                                                         *)
(* One step of the model is one run-to-completion piece of JavaScript:     *)
(* the code from a call or from the resumption of an await up to the next  *)
(* await, or one callback.  The redis server and the generic-pool          *)
(* dispatcher take their own steps.                                        *)
(***************************************************************************)
EXTENDS Integers, Sequences, FiniteSets, Bags, TLC

\* ---------------------------------------------------------------- bounds
\* The number of calls (proxy, invalidate, del, healthcheck, acquire) made in
\* one run of Spec, where every operation of the pool and the cache is called.
MaxCalls == 2
\* The number of calls (proxy, invalidate) made in one run of SpecCache.
MaxCacheCalls == 3
\* options.pool.max, the configured maximum pool size.
PoolMax == 1
\* The last diagnostic id the factory may hand out in one run.
MaxId == 2
\* In SpecFactory: the clients the factories create in one run, the 'error'
\* events one client emits, and the validations of one client.
MaxClients == 2
MaxErrors == 2
MaxValidates == 2

\* ------------------------------------------------------- values and config
MaxSlots == IF MaxCalls > MaxCacheCalls THEN MaxCalls ELSE MaxCacheCalls
Calls == 1..MaxSlots
\* Every call has a main thread of control; a proxy call also has the detached
\* write-back started by `this.set(key, value)`.
Main(c) == c
Wb(c) == MaxSlots + c
Threads == 1..(2 * MaxSlots)
CallOf(t) == IF t > MaxSlots THEN t - MaxSlots ELSE t
IsWb(t) == t > MaxSlots

Nil == "nil"
Params == {1, 2}
\* The passthrough's results: "zero" is the number 0 (a falsy value), "one" the
\* number 1 (a truthy value), "empty" the empty string (falsy, and serialized
\* as the empty string), "circ" a value on which serializeValue throws.
Values == {"zero", "one", "empty", "circ"}

\* options.serializeKey, a deterministic key serializer.
serializeKey(p) == IF p = 1 THEN "k1" ELSE "k2"
Keys == {serializeKey(p) : p \in Params}

\* options.serializeValue (a string conversion): defined where it does not
\* throw.
SerializeThrows(v) == v = "circ"
serializeValue(v) == IF v = "zero" THEN "0" ELSE IF v = "empty" THEN "" ELSE "1"
\* options.deserializeValue, its inverse.
deserializeValue(s) == IF s = "0" THEN "zero" ELSE IF s = "" THEN "empty" ELSE "one"
\* JavaScript truthiness of a cached string (`if (result)`) and of a
\* deserialized value (`if (fromCache)`).
TruthyString(s) == s # Nil /\ s # ""
TruthyValue(v) == v \notin {Nil, "zero", "empty"}

\* options.ttl: `if (expiration)` adds EX to the SET.
Ttl == 60

VARIABLES
    ex,        \* per thread: its use of the pool (acquire, command, release)
    call,      \* per call: the caller-visible operation
    waiters,   \* generic-pool's queue of pending acquire requests
    idle,      \* connections in the pool that are available
    loaned,    \* connections the pool has lent out
    nextId,    \* the module-level `nextId` counter
    draining,  \* generic-pool's _draining flag
    closePc,   \* where close() is: "none", "draining", "clearing", "done"
    store,     \* the redis database: key -> the string stored, or Nil
    lastSet,   \* history: per key, the call whose SET wrote the present entry
    deleted,   \* history: per key, a DEL was served and no SET since
    expiry,    \* per key, the EX the entry was set with (0: none)
    clients,   \* the redis clients the factories created, in order of creation
    log        \* the bag of log entries the factories wrote

vars ==
    <<ex, call, waiters, idle, loaned, nextId, draining, closePc, store,
      lastSet, deleted, expiry, clients, log>>

ExInit ==
    [pc |-> "idle", client |-> 0, out |-> "pending", res |-> Nil,
     nAcq |-> 0, nCmd |-> 0, nRel |-> 0]

\* An exec whose promise has been consumed by the code awaiting it.
ExFinished == [ExInit EXCEPT !.pc = "finished"]

\* read, from, quiet and afterInv are history: what the cached read replied,
\* whose write-back had written the entry read, whether the key had been
\* deleted and not written since when the read was served, and whether the
\* call was made next after a successful invalidate of the same params.
CallInit ==
    [kind |-> "none", p |-> 0, pc |-> "idle", invoked |-> 0,
     out |-> "pending", ret |-> Nil, wb |-> "none",
     read |-> "unread", from |-> 0, quiet |-> FALSE, afterInv |-> FALSE]

Init ==
    /\ ex = [t \in Threads |-> ExInit]
    /\ call = [c \in Calls |-> CallInit]
    /\ waiters = <<>>
    /\ idle = {}
    /\ loaned = {}
    /\ nextId = 1
    /\ draining = FALSE
    /\ closePc = "none"
    /\ store = [k \in Keys |-> Nil]
    /\ lastSet = [k \in Keys |-> 0]
    /\ deleted = [k \in Keys |-> FALSE]
    /\ expiry = [k \in Keys |-> 0]
    /\ clients = <<>>
    /\ log = EmptyBag

\* ------------------------------------------------------------ generic-pool
PoolSize == Cardinality(idle \cup loaned)

Remove(q, t) == SelectSeq(q, LAMBDA x : x # t)

InQueue(t) == \E i \in 1..Len(waiters) : waiters[i] = t

\* pool.acquire(): a draining pool rejects the request at once, otherwise the
\* request joins the queue and is settled later by the dispatcher.
PoolAcquire(e) ==
    IF draining
    THEN [e EXCEPT !.pc = "acqfail", !.res = "draining"]
    ELSE [e EXCEPT !.pc = "acquiring"]

QueueAfterAcquire(t) == IF draining THEN waiters ELSE Append(waiters, t)

\* The dispatcher's bound on growth: a new connection only below options.pool.max.
MayGrowIgnoringMax == nextId <= MaxId
MayGrow == PoolSize < PoolMax /\ nextId <= MaxId

\* The dispatcher serves the oldest request: with an idle connection, else with
\* a connection the factory creates (create() takes the next diagnostic id).
Grant(t) ==
    /\ waiters # <<>>
    /\ t = Head(waiters)
    /\ \/ /\ idle # {}
          /\ \E conn \in idle :
                /\ idle' = idle \ {conn}
                /\ loaned' = loaned \cup {conn}
                /\ ex' = [ex EXCEPT ![t].pc = "granted", ![t].client = conn,
                                    ![t].nAcq = @ + 1]
          /\ UNCHANGED nextId
       \/ /\ idle = {}
          /\ MayGrow
          /\ loaned' = loaned \cup {nextId}
          /\ nextId' = nextId + 1
          /\ ex' = [ex EXCEPT ![t].pc = "granted", ![t].client = nextId,
                              ![t].nAcq = @ + 1]
          /\ UNCHANGED idle
    /\ waiters' = Tail(waiters)
    /\ UNCHANGED <<call, draining, closePc, store, lastSet, deleted, expiry, clients, log>>

\* factory.create() fails (the client emits 'error' before 'ready'): the id is
\* used up and the failure goes to the waiting acquirer.
CreateFail(t) ==
    /\ waiters # <<>>
    /\ t = Head(waiters)
    /\ idle = {}
    /\ MayGrow
    /\ nextId' = nextId + 1
    /\ waiters' = Tail(waiters)
    /\ ex' = [ex EXCEPT ![t].pc = "acqfail", ![t].res = "createError"]
    /\ UNCHANGED <<call, idle, loaned, draining, closePc, store, lastSet, deleted, expiry, clients, log>>

\* options.pool.acquireTimeoutMillis elapses for a queued request.
AcquireTimeout(t) ==
    /\ InQueue(t)
    /\ waiters' = Remove(waiters, t)
    /\ ex' = [ex EXCEPT ![t].pc = "acqfail", ![t].res = "timeout"]
    /\ UNCHANGED <<call, idle, loaned, nextId, draining, closePc, store, lastSet, deleted, expiry, clients, log>>

\* pool.release(client): a lent connection becomes available again; a
\* connection that is not on loan is refused and changes nothing.
IdleAfterRelease(conn) == IF conn \in loaned THEN idle \cup {conn} ELSE idle
LoanedAfterRelease(conn) == loaned \ {conn}

\* pool.drain() resolves when no request is queued and every loan is returned.
DrainSettled == waiters = <<>> /\ loaned = {}

\* ------------------------------------------------------------- RedisPool
Key(c) == serializeKey(call[c].p)

\* Threads that go through exec: the main thread of proxy (GET), invalidate
\* and del (DEL), and every write-back (SET).
UsesExec(t) == IsWb(t) \/ call[CallOf(t)].kind \in {"proxy", "invalidate", "del"}

CmdOf(t) ==
    IF IsWb(t) THEN "SET"
    ELSE CASE call[t].kind = "proxy" -> "GET"
           [] call[t].kind \in {"invalidate", "del"} -> "DEL"
           [] OTHER -> "PING"

\* del(keys) with keys that cannot be spread (null at run time, p = 0 here):
\* the runner throws before any command reaches the client.
NoKeys == 0
RunThrows(t) == ~IsWb(t) /\ call[t].kind = "del" /\ call[t].p = NoKeys

\* exec, after `await this.acquire()`: run(client, callback).
ExecIssue(t) ==
    /\ UsesExec(t)
    /\ ex[t].pc = "granted"
    /\ ex' = [ex EXCEPT ![t] = IF RunThrows(t)
                                THEN [@ EXCEPT !.pc = "threw"]
                                ELSE [@ EXCEPT !.pc = "sent", !.nCmd = @ + 1]]
    /\ UNCHANGED <<call, waiters, idle, loaned, nextId, draining, closePc, store, lastSet, deleted, expiry, clients, log>>

\* The redis server handles a command that was sent, or the command fails
\* (fail) and leaves the database as it was.
StoreAfterDelAll(t) ==
    CASE CmdOf(t) = "SET" ->
            [store EXCEPT ![Key(CallOf(t))] = serializeValue(call[CallOf(t)].ret)]
      [] CmdOf(t) = "DEL" -> [k \in Keys |-> Nil]
      [] OTHER -> store
StoreAfterDelKeeps(t) ==
    CASE CmdOf(t) = "SET" ->
            [store EXCEPT ![Key(CallOf(t))] = serializeValue(call[CallOf(t)].ret)]
      [] OTHER -> store
StoreAfter(t) ==
    CASE CmdOf(t) = "SET" ->
            [store EXCEPT ![Key(CallOf(t))] = serializeValue(call[CallOf(t)].ret)]
      [] CmdOf(t) = "DEL" -> [store EXCEPT ![Key(CallOf(t))] = Nil]
      [] OTHER -> store

ReplyOf(t) ==
    CASE CmdOf(t) = "SET" -> "OK"
      [] CmdOf(t) = "DEL" -> IF store[Key(CallOf(t))] = Nil THEN ":0" ELSE ":1"
      [] CmdOf(t) = "GET" -> store[Key(CallOf(t))]
      [] OTHER -> "PONG"

\* The history kept beside the database: which call's SET reached the key
\* last, and whether the key was deleted and not written since.
LastSetAfter(t) ==
    CASE CmdOf(t) = "SET" -> [lastSet EXCEPT ![Key(CallOf(t))] = CallOf(t)]
      [] CmdOf(t) = "DEL" -> [lastSet EXCEPT ![Key(CallOf(t))] = 0]
      [] OTHER -> lastSet

DeletedAfter(t) ==
    CASE CmdOf(t) = "SET" -> [deleted EXCEPT ![Key(CallOf(t))] = FALSE]
      [] CmdOf(t) = "DEL" -> [deleted EXCEPT ![Key(CallOf(t))] = TRUE]
      [] OTHER -> deleted

\* set(key, value, expiration): `if (expiration)` sends SET with EX, else
\* a SET without expiry.
ExpiryAfter(t) ==
    CASE CmdOf(t) = "SET" -> [expiry EXCEPT ![Key(CallOf(t))] = IF Ttl # 0 THEN Ttl ELSE 0]
      [] CmdOf(t) = "DEL" -> [expiry EXCEPT ![Key(CallOf(t))] = 0]
      [] OTHER -> expiry

CallAfterReply(t) ==
    IF CmdOf(t) = "GET"
    THEN [call EXCEPT ![t].from = lastSet[Key(t)], ![t].quiet = deleted[Key(t)]]
    ELSE call

StoreReply(t, fail) ==
    /\ ex[t].pc = "sent"
    /\ IF fail
       THEN /\ ex' = [ex EXCEPT ![t].pc = "replied", ![t].res = "ERR"]
            /\ UNCHANGED <<call, store, lastSet, deleted, expiry, clients, log>>
       ELSE /\ ex' = [ex EXCEPT ![t].pc = "replied", ![t].res = ReplyOf(t)]
            /\ store' = StoreAfter(t)
            /\ lastSet' = LastSetAfter(t)
            /\ deleted' = DeletedAfter(t)
            /\ expiry' = ExpiryAfter(t)
            /\ call' = CallAfterReply(t)
    /\ UNCHANGED <<waiters, idle, loaned, nextId, draining, closePc, clients, log>>

\* exec's callback: release the client, then reject or resolve.
ExecCallbackWithoutRelease(t) ==
    /\ UsesExec(t)
    /\ ex[t].pc = "replied"
    /\ ex' = [ex EXCEPT ![t].pc = "settled", ![t].nRel = @ + 1, ![t].client = 0,
                        ![t].out = IF ex[t].res = "ERR" THEN "rejected" ELSE "resolved"]
    /\ UNCHANGED <<call, waiters, idle, loaned, nextId, draining, closePc, store, lastSet, deleted, expiry, clients, log>>
ExecCallback(t) ==
    /\ UsesExec(t)
    /\ ex[t].pc = "replied"
    /\ idle' = IdleAfterRelease(ex[t].client)
    /\ loaned' = LoanedAfterRelease(ex[t].client)
    /\ ex' = [ex EXCEPT ![t].pc = "settled", ![t].nRel = @ + 1, ![t].client = 0,
                        ![t].out = IF ex[t].res = "ERR" THEN "rejected" ELSE "resolved"]
    /\ UNCHANGED <<call, waiters, nextId, draining, closePc, store, lastSet, deleted, expiry, clients, log>>

\* A call starts only after the calls numbered below it have started.
CanStart(c) ==
    /\ call[c].kind = "none"
    /\ IF c = 1 THEN TRUE ELSE call[c - 1].kind # "none"

\* pool.del(keys), called directly, and its caller's await of the result.
StartDel(c, p) ==
    /\ CanStart(c)
    /\ call' = [call EXCEPT ![c] = [@ EXCEPT !.kind = "del", !.p = p, !.pc = "exec"]]
    /\ ex' = [ex EXCEPT ![Main(c)] = PoolAcquire(@)]
    /\ waiters' = QueueAfterAcquire(Main(c))
    /\ UNCHANGED <<idle, loaned, nextId, draining, closePc, store, lastSet, deleted, expiry, clients, log>>

DelReturn(c) ==
    /\ call[c].kind = "del"
    /\ call[c].pc = "exec"
    /\ ex[Main(c)].pc = "settled"
    /\ call' = [call EXCEPT ![c].pc = "done", ![c].out = ex[Main(c)].out]
    /\ ex' = [ex EXCEPT ![Main(c)] = ExFinished]
    /\ UNCHANGED <<waiters, idle, loaned, nextId, draining, closePc, store, lastSet, deleted, expiry, clients, log>>

\* pool.acquire(), called directly, and the release of the client it gave.
StartAcquire(c) ==
    /\ CanStart(c)
    /\ call' = [call EXCEPT ![c] = [@ EXCEPT !.kind = "acquire", !.pc = "exec"]]
    /\ ex' = [ex EXCEPT ![Main(c)] = PoolAcquire(@)]
    /\ waiters' = QueueAfterAcquire(Main(c))
    /\ UNCHANGED <<idle, loaned, nextId, draining, closePc, store, lastSet, deleted, expiry, clients, log>>

Release(c) ==
    /\ call[c].kind = "acquire"
    /\ ex[Main(c)].pc = "granted"
    /\ idle' = IdleAfterRelease(ex[Main(c)].client)
    /\ loaned' = LoanedAfterRelease(ex[Main(c)].client)
    /\ ex' = [ex EXCEPT ![Main(c)].pc = "settled", ![Main(c)].nRel = @ + 1,
                        ![Main(c)].client = 0]
    /\ call' = [call EXCEPT ![c].pc = "done"]
    /\ UNCHANGED <<waiters, nextId, draining, closePc, store, lastSet, deleted, expiry, clients, log>>

\* close(): `await this.pool.drain()` ...
CloseBegin ==
    /\ closePc = "none"
    /\ draining' = TRUE
    /\ closePc' = "draining"
    /\ UNCHANGED <<ex, call, waiters, idle, loaned, nextId, store, lastSet, deleted, expiry, clients, log>>

\* ... `await this.pool.clear()`, which destroys every available connection ...
CloseClearWithoutDrain ==
    /\ closePc = "draining"
    /\ idle' = {}
    /\ closePc' = "clearing"
    /\ UNCHANGED <<ex, call, waiters, loaned, nextId, draining, store, lastSet, deleted, expiry, clients, log>>
CloseClear ==
    /\ closePc = "draining"
    /\ DrainSettled
    /\ idle' = {}
    /\ closePc' = "clearing"
    /\ UNCHANGED <<ex, call, waiters, loaned, nextId, draining, store, lastSet, deleted, expiry, clients, log>>

\* ... and close() returns.
CloseReturn ==
    /\ closePc = "clearing"
    /\ closePc' = "done"
    /\ UNCHANGED <<ex, call, waiters, idle, loaned, nextId, draining, store, lastSet, deleted, expiry, clients, log>>

\* healthcheck(): `await this.acquire()` ...
StartHealthcheck(c) ==
    /\ CanStart(c)
    /\ call' = [call EXCEPT ![c] = [@ EXCEPT !.kind = "healthcheck", !.pc = "exec"]]
    /\ ex' = [ex EXCEPT ![Main(c)] = PoolAcquire(@)]
    /\ waiters' = QueueAfterAcquire(Main(c))
    /\ UNCHANGED <<idle, loaned, nextId, draining, closePc, store, lastSet, deleted, expiry, clients, log>>

\* ... which rejects: nothing catches it, and healthcheck() rejects with it.
HealthcheckAcquireRejected(c) ==
    /\ call[c].kind = "healthcheck"
    /\ call[c].pc = "exec"
    /\ ex[Main(c)].pc = "acqfail"
    /\ call' = [call EXCEPT ![c].pc = "done", ![c].out = "rejected",
                            ![c].ret = ex[Main(c)].res]
    /\ UNCHANGED <<ex, waiters, idle, loaned, nextId, draining, closePc, store, lastSet, deleted, expiry, clients, log>>

\* ... or gives a client: client.ping(callback).
HealthcheckPing(c) ==
    /\ call[c].kind = "healthcheck"
    /\ ex[Main(c)].pc = "granted"
    /\ ex' = [ex EXCEPT ![Main(c)].pc = "sent", ![Main(c)].nCmd = @ + 1]
    /\ UNCHANGED <<call, waiters, idle, loaned, nextId, draining, closePc, store, lastSet, deleted, expiry, clients, log>>

\* The ping's callback fills the result in and resolves the inner promise.
HealthcheckCallback(c) ==
    /\ call[c].kind = "healthcheck"
    /\ ex[Main(c)].pc = "replied"
    /\ ex' = [ex EXCEPT ![Main(c)].pc = "pinged"]
    /\ call' = [call EXCEPT ![c].ret = IF ex[Main(c)].res = "ERR" THEN "unavailable"
                                                                  ELSE "available"]
    /\ UNCHANGED <<waiters, idle, loaned, nextId, draining, closePc, store, lastSet, deleted, expiry, clients, log>>

\* `this.release(client); return result;`
HealthcheckReturnWithoutRelease(c) ==
    /\ call[c].kind = "healthcheck"
    /\ ex[Main(c)].pc = "pinged"
    /\ ex' = [ex EXCEPT ![Main(c)].pc = "settled", ![Main(c)].res = Nil]
    /\ call' = [call EXCEPT ![c].pc = "done", ![c].out = "resolved"]
    /\ UNCHANGED <<waiters, idle, loaned, nextId, draining, closePc, store, lastSet, deleted, expiry, clients, log>>
HealthcheckReturn(c) ==
    /\ call[c].kind = "healthcheck"
    /\ ex[Main(c)].pc = "pinged"
    /\ idle' = IdleAfterRelease(ex[Main(c)].client)
    /\ loaned' = LoanedAfterRelease(ex[Main(c)].client)
    /\ ex' = [ex EXCEPT ![Main(c)].pc = "settled", ![Main(c)].nRel = @ + 1,
                        ![Main(c)].client = 0, ![Main(c)].res = Nil]
    /\ call' = [call EXCEPT ![c].pc = "done", ![c].out = "resolved"]
    /\ UNCHANGED <<waiters, nextId, draining, closePc, store, lastSet, deleted, expiry, clients, log>>

\* ------------------------------------------------------------ RedisCache
\* RedisCache.get: the cached string, deserialized when it is truthy, else
\* undefined.
CacheGet(result) == IF TruthyString(result) THEN deserializeValue(result) ELSE Nil

\* proxy's test of what get returned: `if (fromCache)`.
IsHit(fromCache) == TruthyValue(fromCache)

\* The call made just before call c was invalidate(p), and it has completed
\* successfully.
JustInvalidated(c, p) ==
    IF c = 1 THEN FALSE
    ELSE /\ call[c - 1].kind = "invalidate"
         /\ call[c - 1].p = p
         /\ call[c - 1].pc = "done"
         /\ call[c - 1].out = "resolved"

\* proxy(params): serializeKey, then `await this.get(key)`.
StartProxy(c, p) ==
    /\ CanStart(c)
    /\ call' = [call EXCEPT ![c] = [@ EXCEPT !.kind = "proxy", !.p = p, !.pc = "exec",
                                             !.afterInv = JustInvalidated(c, p)]]
    /\ ex' = [ex EXCEPT ![Main(c)] = PoolAcquire(@)]
    /\ waiters' = QueueAfterAcquire(Main(c))
    /\ UNCHANGED <<idle, loaned, nextId, draining, closePc, store, lastSet, deleted, expiry, clients, log>>

\* proxy after the GET: a rejected read rejects proxy; a hit returns the cached
\* value; otherwise the passthrough is invoked.
ProxyAfterGetPresentIsHit(c) ==
    /\ call[c].kind = "proxy"
    /\ call[c].pc = "exec"
    /\ ex[Main(c)].pc = "settled"
    /\ call' = [call EXCEPT ![c] =
            IF ex[Main(c)].out = "rejected"
            THEN [@ EXCEPT !.pc = "done", !.out = "rejected", !.ret = "ERR",
                           !.read = "ERR"]
            ELSE IF ex[Main(c)].res # Nil
                 THEN [@ EXCEPT !.pc = "done", !.out = "resolved",
                                !.ret = deserializeValue(ex[Main(c)].res),
                                !.read = ex[Main(c)].res]
                 ELSE [@ EXCEPT !.pc = "pass", !.invoked = @ + 1,
                                !.read = ex[Main(c)].res]]
    /\ ex' = [ex EXCEPT ![Main(c)] = ExFinished]
    /\ UNCHANGED <<waiters, idle, loaned, nextId, draining, closePc, store, lastSet, deleted, expiry, clients, log>>
ProxyAfterGetSingleFlight(c) ==
    /\ call[c].kind = "proxy"
    /\ call[c].pc = "exec"
    /\ ex[Main(c)].pc = "settled"
    /\ call' = [call EXCEPT ![c] =
            IF ex[Main(c)].out = "rejected"
            THEN [@ EXCEPT !.pc = "done", !.out = "rejected", !.ret = "ERR",
                           !.read = "ERR"]
            ELSE IF IsHit(CacheGet(ex[Main(c)].res))
                 THEN [@ EXCEPT !.pc = "done", !.out = "resolved",
                                !.ret = CacheGet(ex[Main(c)].res),
                                !.read = ex[Main(c)].res]
                 ELSE IF \E d \in Calls \ {c} :
                            call[d].pc = "pass" /\ call[d].p = call[c].p
                      THEN [@ EXCEPT !.pc = "done", !.out = "resolved",
                                     !.read = ex[Main(c)].res]
                      ELSE [@ EXCEPT !.pc = "pass", !.invoked = @ + 1,
                                     !.read = ex[Main(c)].res]]
    /\ ex' = [ex EXCEPT ![Main(c)] = ExFinished]
    /\ UNCHANGED <<waiters, idle, loaned, nextId, draining, closePc, store, lastSet, deleted, expiry, clients, log>>
ProxyAfterGet(c) ==
    /\ call[c].kind = "proxy"
    /\ call[c].pc = "exec"
    /\ ex[Main(c)].pc = "settled"
    /\ call' = [call EXCEPT ![c] =
            IF ex[Main(c)].out = "rejected"
            THEN [@ EXCEPT !.pc = "done", !.out = "rejected", !.ret = "ERR",
                           !.read = "ERR"]
            ELSE IF IsHit(CacheGet(ex[Main(c)].res))
                 THEN [@ EXCEPT !.pc = "done", !.out = "resolved",
                                !.ret = CacheGet(ex[Main(c)].res),
                                !.read = ex[Main(c)].res]
                 ELSE [@ EXCEPT !.pc = "pass", !.invoked = @ + 1,
                                !.read = ex[Main(c)].res]]
    /\ ex' = [ex EXCEPT ![Main(c)] = ExFinished]
    /\ UNCHANGED <<waiters, idle, loaned, nextId, draining, closePc, store, lastSet, deleted, expiry, clients, log>>

\* The passthrough resolves with v: `this.set(key, value)` runs up to its first
\* await (serializeValue, then pool.set's acquire) and proxy returns v.
PassthroughResolve(c, v) ==
    /\ call[c].kind = "proxy"
    /\ call[c].pc = "pass"
    /\ call' = [call EXCEPT ![c].pc = "done", ![c].out = "resolved", ![c].ret = v,
                            ![c].wb = IF SerializeThrows(v) THEN "warned" ELSE "pending"]
    /\ IF SerializeThrows(v)
       THEN UNCHANGED <<ex, waiters>>
       ELSE /\ ex' = [ex EXCEPT ![Wb(c)] = PoolAcquire(@)]
            /\ waiters' = QueueAfterAcquire(Wb(c))
    /\ UNCHANGED <<idle, loaned, nextId, draining, closePc, store, lastSet, deleted, expiry, clients, log>>

\* The passthrough rejects: proxy rejects with its error.
PassthroughReject(c) ==
    /\ call[c].kind = "proxy"
    /\ call[c].pc = "pass"
    /\ call' = [call EXCEPT ![c].pc = "done", ![c].out = "rejected", ![c].ret = "ERR"]
    /\ UNCHANGED <<ex, waiters, idle, loaned, nextId, draining, closePc, store, lastSet, deleted, expiry, clients, log>>

\* RedisCache.set after `await this.pool.set(...)`: a rejection is caught and
\* logged with logger.warn.
SetAfterExec(c) ==
    /\ call[c].wb = "pending"
    /\ ex[Wb(c)].pc = "settled"
    /\ call' = [call EXCEPT ![c].wb = IF ex[Wb(c)].out = "rejected" THEN "warned"
                                                                   ELSE "ok"]
    /\ ex' = [ex EXCEPT ![Wb(c)] = ExFinished]
    /\ UNCHANGED <<waiters, idle, loaned, nextId, draining, closePc, store, lastSet, deleted, expiry, clients, log>>

\* invalidate(params): serializeKey, then `await this.pool.del([ key ])`.
StartInvalidate(c, p) ==
    /\ CanStart(c)
    /\ call' = [call EXCEPT ![c] = [@ EXCEPT !.kind = "invalidate", !.p = p,
                                             !.pc = "exec"]]
    /\ ex' = [ex EXCEPT ![Main(c)] = PoolAcquire(@)]
    /\ waiters' = QueueAfterAcquire(Main(c))
    /\ UNCHANGED <<idle, loaned, nextId, draining, closePc, store, lastSet, deleted, expiry, clients, log>>

InvalidateReturn(c) ==
    /\ call[c].kind = "invalidate"
    /\ call[c].pc = "exec"
    /\ ex[Main(c)].pc = "settled"
    /\ call' = [call EXCEPT ![c].pc = "done", ![c].out = ex[Main(c)].out]
    /\ ex' = [ex EXCEPT ![Main(c)] = ExFinished]
    /\ UNCHANGED <<waiters, idle, loaned, nextId, draining, closePc, store, lastSet, deleted, expiry, clients, log>>

\* A key written with EX expires in the redis server.
Expire(k) ==
    /\ expiry[k] > 0
    /\ store[k] # Nil
    /\ store' = [store EXCEPT ![k] = Nil]
    /\ lastSet' = [lastSet EXCEPT ![k] = 0]
    /\ expiry' = [expiry EXCEPT ![k] = 0]
    /\ UNCHANGED <<ex, call, waiters, idle, loaned, nextId, draining, closePc,
                   deleted, clients, log>>

\* The steps of generic-pool, of exec and of the redis server.
PoolStep == \E t \in Threads : Grant(t) \/ CreateFail(t) \/ AcquireTimeout(t)

ExecStep ==
    \/ \E t \in Threads : ExecIssue(t) \/ ExecCallback(t)
    \/ \E t \in Threads, fail \in BOOLEAN : StoreReply(t, fail)

\* The steps of the cache, for the calls numbered up to n.
CacheStep(n) ==
    \/ \E c \in 1..n, p \in Params : StartProxy(c, p) \/ StartInvalidate(c, p)
    \/ \E c \in 1..n : ProxyAfterGet(c) \/ PassthroughReject(c) \/ SetAfterExec(c)
                          \/ InvalidateReturn(c)
    \/ \E c \in 1..n, v \in Values : PassthroughResolve(c, v)
    \/ \E k \in Keys : Expire(k)

\* Every operation of RedisPool and RedisCache, called by concurrent callers.
Next ==
    \/ PoolStep
    \/ ExecStep
    \/ CacheStep(MaxCalls)
    \/ \E c \in 1..MaxCalls, p \in Params \cup {NoKeys} : StartDel(c, p)
    \/ \E c \in 1..MaxCalls : StartAcquire(c) \/ Release(c) \/ DelReturn(c)
    \/ \E c \in 1..MaxCalls : StartHealthcheck(c) \/ HealthcheckAcquireRejected(c)
    \/ \E c \in 1..MaxCalls : HealthcheckPing(c) \/ HealthcheckCallback(c)
                                \/ HealthcheckReturn(c)
    \/ CloseBegin \/ CloseClear \/ CloseReturn

Spec == Init /\ [][Next]_vars

\* The cache alone: concurrent proxy and invalidate calls on one RedisCache.
NextCache == PoolStep \/ ExecStep \/ CacheStep(MaxCacheCalls)

SpecCache == Init /\ [][NextCache]_vars

\* -------------------------------------------------------------- the factory
\* The factory that createNewPool gives to generic-pool, one per RedisPool
\* instance: create, destroy and validate, called by the pool, and the events
\* of the redis clients.  All instances share the module-level nextId.
Pools == {1, 2}

\* What stays as it is in every step of the factory.
poolVars ==
    <<ex, call, waiters, idle, loaned, draining, closePc, store, lastSet,
      deleted, expiry>>

\* A promise is settled by the first resolve or reject; later ones do nothing.
SettleOverwrites(state, outcome) == outcome
Settle(state, outcome) == IF state = "pending" THEN outcome ELSE state

\* A log entry: its kind, the endpoint (host, port, db) and the clientId.
Entry(kind, pl, id) == [kind |-> kind, endpoint |-> pl, clientId |-> id]
Logged(entry) == log (+) SetToBag({entry})

\* first: which event came first (history); nValidate, nDestroy: how often
\* validate and destroy were called on the client (history).
NewClient(pl, id) ==
    [pool |-> pl, id |-> id, fulfilled |-> FALSE, promise |-> "pending",
     first |-> "none", nErr |-> 0, ready |-> FALSE, life |-> "open",
     vpc |-> "idle", verr |-> FALSE, vout |-> "pending", vval |-> FALSE,
     nValidate |-> 0, nDestroy |-> 0]

\* factory.create(): clientId = nextId++, the debug entry, createClient, and
\* the handlers for 'error' and 'ready'.
CreateWithoutIncrement(pl) ==
    /\ Len(clients) < MaxClients
    /\ UNCHANGED nextId
    /\ log' = Logged(Entry("create", pl, nextId))
    /\ clients' = Append(clients, NewClient(pl, nextId))
    /\ UNCHANGED poolVars
Create(pl) ==
    /\ Len(clients) < MaxClients
    /\ nextId' = nextId + 1
    /\ log' = Logged(Entry("create", pl, nextId))
    /\ clients' = Append(clients, NewClient(pl, nextId))
    /\ UNCHANGED poolVars

\* The client emits 'error': the error entry, and reject unless fulfilled.
OnError(i) ==
    /\ clients[i].life # "closed"
    /\ clients[i].nErr < MaxErrors
    /\ log' = Logged(Entry("error", clients[i].pool, clients[i].id))
    /\ clients' = [clients EXCEPT ![i] =
            [@ EXCEPT !.nErr = @ + 1,
                      !.first = IF @ = "none" THEN "error" ELSE @,
                      !.fulfilled = TRUE,
                      !.promise = IF clients[i].fulfilled
                                  THEN @ ELSE Settle(@, "rejected")]]
    /\ UNCHANGED <<poolVars, nextId>>

\* The client emits 'ready': the debug entry, fulfilled = true, resolve(client).
OnReady(i) ==
    /\ clients[i].life = "open"
    /\ ~clients[i].ready
    /\ log' = Logged(Entry("ready", clients[i].pool, clients[i].id))
    /\ clients' = [clients EXCEPT ![i] =
            [@ EXCEPT !.ready = TRUE,
                      !.first = IF @ = "none" THEN "ready" ELSE @,
                      !.fulfilled = TRUE,
                      !.promise = Settle(@, "resolved")]]
    /\ UNCHANGED <<poolVars, nextId>>

\* factory.validate(client): client.ping(callback) ...
Validate(i) ==
    /\ clients[i].promise = "resolved"
    /\ clients[i].life = "open"
    /\ clients[i].vpc # "pinging"
    /\ clients[i].nValidate < MaxValidates
    /\ clients' = [clients EXCEPT ![i] =
            [@ EXCEPT !.vpc = "pinging", !.vout = "pending",
                      !.nValidate = @ + 1]]
    /\ UNCHANGED <<poolVars, nextId, log>>

\* ... and the ping's callback: resolve(! error).
ValidateCallbackRejects(i, error) ==
    /\ clients[i].vpc = "pinging"
    /\ clients' = [clients EXCEPT ![i] =
            [@ EXCEPT !.vpc = "done", !.verr = error,
                      !.vout = Settle(@, IF error THEN "rejected" ELSE "resolved"),
                      !.vval = ~error]]
    /\ UNCHANGED <<poolVars, nextId, log>>
ValidateCallback(i, error) ==
    /\ clients[i].vpc = "pinging"
    /\ clients' = [clients EXCEPT ![i] =
            [@ EXCEPT !.vpc = "done", !.verr = error,
                      !.vout = Settle(@, "resolved"),
                      !.vval = ~error]]
    /\ UNCHANGED <<poolVars, nextId, log>>

\* factory.destroy(client): clientIds.get(client), the debug entry,
\* client.quit(callback) ...
Destroy(i) ==
    /\ clients[i].promise = "resolved"
    /\ clients[i].life = "open"
    /\ clients[i].vpc # "pinging"
    /\ log' = Logged(Entry("destroy", clients[i].pool, clients[i].id))
    /\ clients' = [clients EXCEPT ![i] =
            [@ EXCEPT !.life = "quitting", !.nDestroy = @ + 1]]
    /\ UNCHANGED <<poolVars, nextId>>

\* ... and quit's callback: resolve().
QuitCallback(i) ==
    /\ clients[i].life = "quitting"
    /\ clients' = [clients EXCEPT ![i].life = "closed"]
    /\ UNCHANGED <<poolVars, nextId, log>>

\* The factories on their own: the pools call create, validate and destroy
\* in any order, and the clients emit their events in any order.
NextFactory ==
    \/ \E pl \in Pools : Create(pl)
    \/ \E i \in 1..Len(clients) : OnError(i) \/ OnReady(i)
    \/ \E i \in 1..Len(clients) : Validate(i) \/ Destroy(i) \/ QuitCallback(i)
    \/ \E i \in 1..Len(clients), error \in BOOLEAN : ValidateCallback(i, error)

SpecFactory == Init /\ [][NextFactory]_vars

\* ------------------------------------------------------------------ claims
\* Thread t has acquired a connection and not yet released it.
Held(t) == ex[t].nAcq > ex[t].nRel
Holders == {t \in Threads : Held(t)}

\* C1: every exec call acquires one connection, issues one command on it and
\* releases it once, and the release comes before the result or the error is
\* delivered: an exec whose promise is settled, or that was given a connection
\* and has come to rest, has counted exactly one of each.
C1_ExecAcquiresIssuesReleasesOnce ==
    \A t \in Threads : UsesExec(t) =>
        /\ ex[t].nAcq <= 1 /\ ex[t].nCmd <= 1 /\ ex[t].nRel <= 1
        /\ ex[t].out # "pending" =>
                ex[t].nAcq = 1 /\ ex[t].nCmd = 1 /\ ex[t].nRel = 1
        /\ ex[t].pc \in {"settled", "threw"} =>
                ex[t].nCmd = 1 /\ ex[t].nRel = 1

\* C2: an exec whose command execution throws while the command is being
\* issued has still released its connection exactly once, and the connection
\* is not left checked out.
C2_ThrowStillReleases ==
    \A t \in Threads :
        ex[t].pc = "threw" => ex[t].nRel = 1 /\ ex[t].client \notin loaned

\* C3: the connections held by callers never number more than the configured
\* maximum, and no connection is held by two callers at once.
C3_HeldWithinMax ==
    /\ Cardinality(Holders) <= PoolMax
    /\ \A t1, t2 \in Holders : t1 # t2 => ex[t1].client # ex[t2].client
    /\ \A t \in Holders : ex[t].client \in loaned

\* C3, its case: the pool is at its maximum, every connection is held, and
\* another caller is waiting for one.
C3_Witness ==
    /\ Cardinality(Holders) = PoolMax
    /\ idle = {}
    /\ waiters # <<>>

Proxies == {c \in Calls : call[c].kind = "proxy"}
ReadPresent(c) == call[c].read \notin {"unread", "ERR", Nil, ""}
ReadMiss(c) == call[c].read \in {Nil, ""}

\* C5: a proxy call whose cached read found a non-empty string returns the
\* deserialized string without invoking the passthrough, whatever the
\* deserialized value is.
C5_HitReturnsWithoutPassthrough ==
    \A c \in Proxies : ReadPresent(c) =>
        /\ call[c].pc = "done"
        /\ call[c].out = "resolved"
        /\ call[c].ret = deserializeValue(call[c].read)
        /\ call[c].invoked = 0

\* C6: when proxy(p) is followed by proxy(p) and the second call reads the
\* entry the first call's write-back wrote, the second call is a hit: it does
\* not invoke the passthrough and returns the first call's value, so the
\* passthrough ran once for the two calls.
C6_RoundTripInvokesOnce ==
    \A a, b \in Proxies :
        (a < b /\ call[a].p = call[b].p /\ ReadPresent(b) /\ call[b].from = a) =>
            /\ call[a].invoked = 1
            /\ call[b].invoked = 0
            /\ call[b].pc = "done"
            /\ call[b].ret = call[a].ret

\* C7 as stated: a proxy(p) call made next after a successful invalidate(p),
\* once its cached read has replied, has read a miss and invoked the
\* passthrough.
C7_MissAfterInvalidate ==
    \A c \in Proxies :
        (call[c].afterInv /\ call[c].read \notin {"unread", "ERR"}) =>
            ReadMiss(c) /\ call[c].invoked = 1

\* C7, amended: a proxy(p) call made next after a successful invalidate(p)
\* reads a miss and invokes the passthrough whenever no write-back reached
\* the key between the deletion and the call's read.
C7_MissAfterInvalidateUnlessRewritten ==
    \A c \in Proxies :
        (call[c].afterInv /\ call[c].quiet /\ call[c].read \notin {"unread", "ERR"}) =>
            ReadMiss(c) /\ call[c].invoked = 1

\* C7, its case: an earlier proxy(p) call has returned and its write-back has
\* stored the value, invalidate(p) has completed, and the proxy(p) call made
\* next has read a miss and invoked the passthrough.
C7_Witness ==
    \E a, b, c \in Calls :
        /\ a < b /\ b + 1 = c
        /\ call[a].kind = "proxy" /\ call[a].wb = "ok" /\ call[a].p = call[c].p
        /\ call[b].kind = "invalidate" /\ call[b].out = "resolved"
        /\ call[c].kind = "proxy" /\ call[c].afterInv /\ call[c].quiet
        /\ ReadMiss(c) /\ call[c].invoked = 1

\* C8: a proxy call whose cached read failed (the GET failed or no connection
\* could be acquired for it) has invoked the passthrough, and a proxy call is
\* rejected only after the passthrough was invoked.
C8_ReadFailureStillInvokes ==
    \A c \in Proxies :
        /\ (call[c].read = "ERR" \/ ex[Main(c)].pc = "acqfail") => call[c].invoked = 1
        /\ call[c].out = "rejected" => call[c].invoked = 1

\* C9: the write-back does not hold proxy back nor change its result, and a
\* write-back that failed (serialization, acquisition of a connection, or the
\* SET) has been logged as a warning.
C9_WriteBackFailureWarned ==
    \A c \in Proxies :
        /\ call[c].wb # "none" => call[c].pc = "done" /\ call[c].out = "resolved"
        /\ (call[c].wb # "none" /\ SerializeThrows(call[c].ret)) => call[c].wb = "warned"
        /\ (call[c].wb # "none" /\ ex[Wb(c)].pc = "acqfail") => call[c].wb = "warned"

\* C10: every proxy call that read a miss has invoked the passthrough, however
\* many other calls for the same key are in flight; every call whose
\* passthrough returned has attempted its write-back; and the entry under a
\* key is the value of the call whose SET reached the store last.
C10_NoSingleFlightLastWriteWins ==
    /\ \A c \in Proxies : ReadMiss(c) => call[c].invoked = 1
    /\ \A c \in Proxies :
            (call[c].pc = "done" /\ call[c].invoked = 1 /\ call[c].out = "resolved")
                => call[c].wb # "none"
    /\ \A k \in Keys :
            lastSet[k] # 0 => store[k] = serializeValue(call[lastSet[k]].ret)

\* C10, its case: two calls for the same key both read a miss before either
\* wrote, both passthroughs ran and returned different values, both
\* write-backs completed, and the entry is that of the one that wrote last,
\* here the call that was made first.
C10_Witness ==
    \E a, b \in Proxies :
        /\ a < b /\ call[a].p = call[b].p
        /\ ReadMiss(a) /\ ReadMiss(b) /\ call[b].from = 0
        /\ call[a].invoked = 1 /\ call[b].invoked = 1
        /\ call[a].wb = "ok" /\ call[b].wb = "ok"
        /\ call[a].ret # call[b].ret
        /\ lastSet[Key(a)] = a
        /\ store[Key(a)] = serializeValue(call[a].ret)

\* The healthcheck calls.
Healthchecks == {c \in Calls : call[c].kind = "healthcheck"}

\* C11: healthcheck() never fails: whatever the acquisition and the ping do,
\* its promise is not rejected, and a healthcheck that has returned has
\* returned a result that says available or unavailable.
C11_HealthcheckNeverRejects ==
    \A c \in Healthchecks :
        /\ call[c].out # "rejected"
        /\ call[c].pc = "done" => call[c].ret \in {"available", "unavailable"}

\* C12: a healthcheck() call that acquired a connection releases it exactly
\* once before it returns, whether the ping succeeded or failed: it never
\* releases twice nor without having acquired, and a healthcheck that has
\* returned a result holds nothing.
C12_HealthcheckReleasesOnce ==
    \A c \in Healthchecks :
        /\ ex[Main(c)].nAcq <= 1
        /\ ex[Main(c)].nRel <= ex[Main(c)].nAcq
        /\ ex[Main(c)].pc \in {"granted", "sent", "replied", "pinged"} =>
                ex[Main(c)].nRel = 0 /\ ex[Main(c)].client \in loaned
        /\ (call[c].pc = "done" /\ call[c].out = "resolved") =>
                /\ ex[Main(c)].nAcq = 1
                /\ ex[Main(c)].nRel = 1
                /\ \A conn \in loaned : \E t \in Holders : ex[t].client = conn

\* C12, its case: a healthcheck whose ping failed has returned its result
\* and its connection is back in the pool.
C12_Witness ==
    \E c \in Healthchecks :
        /\ call[c].pc = "done"
        /\ call[c].ret = "unavailable"
        /\ ex[Main(c)].nRel = 1
        /\ idle # {}

\* C13: when the pool's acquire fails inside an exec call, the promise exec
\* returned is rejected.  (The state "acqfail" is exec's executor after the
\* rejected await: nothing of exec runs after it.)
C13_AcquireFailureRejectsExec ==
    \A t \in Threads :
        (UsesExec(t) /\ ex[t].pc = "acqfail") => ex[t].out = "rejected"

\* C14: invalidate(params) issues one DEL, for the key serializeKey(params):
\* the step in which the store serves it leaves that key absent and every
\* other entry as it was, or, when the DEL fails, leaves the store as it
\* was; no other step of the invalidate call changes the store; and the call
\* returns rejected exactly when its DEL failed.
C14_InvalidateDeletesOnlyItsKey ==
    [][\A c \in Calls : call[c].kind = "invalidate" =>
          /\ (ex[c].pc = "sent" /\ ex'[c].pc = "replied") =>
                IF ex'[c].res = "ERR"
                THEN store' = store
                ELSE /\ store'[Key(c)] = Nil
                     /\ \A k \in Keys \ {Key(c)} : store'[k] = store[k]
          /\ (ex[c].pc # "sent" /\ ex'[c] # ex[c]) => store' = store
          /\ ex'[c].nCmd <= 1
          /\ (call[c].pc = "exec" /\ call'[c].pc = "done") =>
                /\ ex[c].nCmd = 1
                /\ call'[c].out = IF ex[c].res = "ERR" THEN "rejected" ELSE "resolved"
      ]_vars

\* C14, its case: the DEL of an invalidate has removed an entry that was
\* there, while the other key still holds its entry.
C14_Witness ==
    \E c \in Calls :
        /\ call[c].kind = "invalidate"
        /\ ex[c].pc = "settled" /\ ex[c].res = ":1"
        /\ store[Key(c)] = Nil
        /\ \E k \in Keys \ {Key(c)} : store[k] # Nil

\* C15: a proxy call whose cached read returned nothing or the empty string
\* has invoked the passthrough; once the passthrough's value is returned the
\* write-back has been attempted; and an entry that a write-back has set is
\* the serialized value the call returned, under the call's key, with the
\* configured TTL.
C15_EmptyReadIsAMiss ==
    /\ \A c \in Proxies : ReadMiss(c) =>
            /\ call[c].invoked = 1
            /\ call[c].pc \in {"pass", "done"}
            /\ (call[c].pc = "done" /\ call[c].out = "resolved") => call[c].wb # "none"
    /\ \A k \in Keys : lastSet[k] # 0 =>
            /\ ~IsHit(CacheGet(call[lastSet[k]].read))
            /\ Key(lastSet[k]) = k
            /\ store[k] = serializeValue(call[lastSet[k]].ret)
            /\ expiry[k] = Ttl

\* C15, its case: a call has read the empty string under its key, invoked
\* the passthrough, returned, and its write-back has replaced the entry.
C15_Witness ==
    \E c \in Proxies :
        /\ call[c].read = ""
        /\ call[c].invoked = 1
        /\ call[c].pc = "done" /\ call[c].wb = "ok"
        /\ lastSet[Key(c)] = c
        /\ store[Key(c)] = serializeValue(call[c].ret)
        /\ expiry[Key(c)] = Ttl

\* The clients created so far.
Created == 1..Len(clients)

\* C16: the promise of factory.create is settled once, by the first of the
\* client's 'error' and 'ready' events, in every order of the events: it
\* changes only while pending, it is rejected when 'error' came first (and a
\* later 'ready' does not resolve it), and it is resolved when 'ready' came
\* first (and a later 'error' does not reject it).
C16_CreateSettlesOnceFirstEventWins ==
    [][\A i \in Created :
          /\ clients'[i].promise # clients[i].promise => clients[i].promise = "pending"
          /\ clients'[i].first = "none" => clients'[i].promise = "pending"
          /\ clients'[i].first = "error" => clients'[i].promise = "rejected"
          /\ clients'[i].first = "ready" => clients'[i].promise = "resolved"
      ]_vars

\* C16, its case: one client has emitted 'error', then 'ready', then 'error'
\* again, and another 'ready', then 'error'.
C16_Witness ==
    \E i, j \in Created :
        /\ clients[i].first = "error" /\ clients[i].ready /\ clients[i].nErr = 2
        /\ clients[i].promise = "rejected"
        /\ clients[j].first = "ready" /\ clients[j].nErr >= 1
        /\ clients[j].promise = "resolved"

\* C17: factory.validate never fails: its promise is never rejected, and
\* once the ping has answered it is resolved with true when the ping
\* reported no error and with false when it reported one.
C17_ValidateNeverRejects ==
    \A i \in Created :
        /\ clients[i].vout # "rejected"
        /\ clients[i].vpc = "done" =>
                clients[i].vout = "resolved" /\ clients[i].vval = ~clients[i].verr

\* C17, its case: a validation whose ping reported an error has resolved
\* with false, on a client that an earlier validation had found alive.
C17_Witness ==
    \E i \in Created :
        /\ clients[i].vpc = "done" /\ clients[i].verr
        /\ clients[i].vout = "resolved" /\ ~clients[i].vval
        /\ clients[i].nValidate = 2

\* C18: every client has a non-zero id, ids grow strictly in the order of
\* creation across all pool instances (so no two clients ever created share
\* one, the failed and the destroyed ones included), and the next id to be
\* assigned is above all of them.
C18_IdsNeverCollide ==
    /\ \A i \in Created : clients[i].id > 0 /\ clients[i].id < nextId
    /\ \A i, j \in Created : i < j => clients[i].id < clients[j].id

\* C18, its case: a client of one pool was destroyed, and a client of the
\* other pool, created after it, has failed to connect.
C18_Witness ==
    \E i, j \in Created :
        /\ i < j
        /\ clients[i].pool # clients[j].pool
        /\ clients[i].life = "closed"
        /\ clients[j].promise = "rejected"

\* C19: every create, destroy and validate of a client has written one log
\* entry with the endpoint and the client's id: the entries of each kind are
\* as many as the transitions of that kind.
C19_EveryTransitionLogged ==
    \A i \in Created :
        /\ CopiesIn(Entry("create", clients[i].pool, clients[i].id), log) = 1
        /\ CopiesIn(Entry("destroy", clients[i].pool, clients[i].id), log)
                = clients[i].nDestroy
        /\ CopiesIn(Entry("validate", clients[i].pool, clients[i].id), log)
                = clients[i].nValidate

\* C20: a proxy call holds no pooled connection while its passthrough runs,
\* and never more than one: the connection of the cached read is back in the
\* pool before the passthrough is invoked, and the write-back asks for its
\* own only after the passthrough returned.  So while the passthrough runs
\* every connection on loan is held by some other caller, and with none of
\* those the pool is free to serve the passthrough itself.
C20_NoConnectionHeldDuringPassthrough ==
    \A c \in Proxies :
        /\ ~(Held(Main(c)) /\ Held(Wb(c)))
        /\ ex[Wb(c)].pc # "idle" => call[c].pc = "done"
        /\ call[c].pc = "pass" =>
                /\ ~Held(Main(c)) /\ ~InQueue(Main(c))
                /\ \A conn \in loaned :
                        \E t \in Holders \ {Main(c), Wb(c)} : ex[t].client = conn

\* C20, its case: the pool is at its maximum size, a proxy call is in its
\* passthrough after a cached read on the pool's connection, and that
\* connection is available.
C20_Witness ==
    \E c \in Proxies :
        /\ call[c].pc = "pass"
        /\ PoolSize = PoolMax
        /\ loaned = {}
        /\ idle # {}

====
